---------------------------- MODULE Spec2Model ----------------------------
(***************************************************************************)
(* scripts/migrate-theme.py of presenterm: a filter that reads lines from  *)
(* standard input, rewrites the legacy colour notation "rgb_(R,G,B)" into  *)
(* hexadecimal and writes every line to standard output.                   *)
(*                                                                         *)
(* A Python str is modelled as a sequence of one-character strings, so     *)
(* that the regular expression, int(), the format specification 02x and    *)
(* str.replace are computed character by character.                        *)
(***************************************************************************)
EXTENDS Integers, Sequences, FiniteSets, TLC

VARIABLES
    stdin,      \* the lines sys.stdin will yield, in order
    pos,        \* how many of them the for loop has consumed
    line,       \* the loop variable `line`
    new_line,   \* the loop variable `new_line`
    stdout,     \* the strings passed to sys.stdout.write, in order
    pc          \* position in the loop: "read", "migrate", "write", "done"

vars == <<stdin, pos, line, new_line, stdout, pc>>

(***************************************************************************)
(* Characters                                                              *)
(***************************************************************************)
Quote == "\""

Newline == "\n"

Digits == {"0", "1", "2", "3", "4", "5", "6", "7", "8", "9"}

DigitValue(c) ==
    CASE c = "0" -> 0 [] c = "1" -> 1 [] c = "2" -> 2 [] c = "3" -> 3
      [] c = "4" -> 4 [] c = "5" -> 5 [] c = "6" -> 6 [] c = "7" -> 7
      [] c = "8" -> 8 [] c = "9" -> 9

HexDigits == <<"0", "1", "2", "3", "4", "5", "6", "7", "8", "9",
               "a", "b", "c", "d", "e", "f">>

(***************************************************************************)
(* as_hex: int(number_str), then f"{number:02x}"                           *)
(***************************************************************************)
RECURSIVE int(_)
int(number_str) ==
    IF number_str = <<>> THEN 0
    ELSE 10 * int(SubSeq(number_str, 1, Len(number_str) - 1))
         + DigitValue(number_str[Len(number_str)])

\* the presentation type x: lowercase base 16, no prefix, no padding
RECURSIVE format_x(_)
format_x(number) ==
    IF number < 16 THEN <<HexDigits[number + 1]>>
    ELSE format_x(number \div 16) \o <<HexDigits[(number % 16) + 1]>>

\* x without a width
as_hex_unpadded(number_str) == format_x(int(number_str))

\* the low byte only: two digits whatever the value
as_hex_two_digits(number_str) ==
    LET digits == format_x(int(number_str))
    IN  IF Len(digits) < 2 THEN <<"0">> \o digits
        ELSE SubSeq(digits, Len(digits) - 1, Len(digits))

\* 02x: zero fill to a minimum width of 2
as_hex(number_str) ==
    LET digits == format_x(int(number_str))
    IN  IF Len(digits) < 2 THEN <<"0">> \o digits ELSE digits

(***************************************************************************)
(* re.match(r'.*"rgb_\(([\d]+),([\d]+),([\d]+)\)"', line)                  *)
(***************************************************************************)
RgbOpen == <<"r", "g", "b", "_", "(">>

NoMatch == [ok |-> FALSE, g1 |-> <<>>, g2 |-> <<>>, g3 |-> <<>>]

\* [\d]+ from index j: the index just after the longest run of digits
RECURSIVE digits_end(_, _)
digits_end(s, j) ==
    IF j <= Len(s) /\ s[j] \in Digits THEN digits_end(s, j + 1) ELSE j

\* the part of the pattern after .* , tried at index i; the closing quote is
\* required when closing is TRUE
token_from(s, i, closing) ==
    IF i + 5 > Len(s) \/ SubSeq(s, i, i + 5) # <<Quote>> \o RgbOpen
    THEN NoMatch
    ELSE
    LET b1 == i + 6
        e1 == digits_end(s, b1)
    IN  IF e1 = b1 \/ e1 > Len(s) \/ s[e1] # "," THEN NoMatch
        ELSE
        LET b2 == e1 + 1
            e2 == digits_end(s, b2)
        IN  IF e2 = b2 \/ e2 > Len(s) \/ s[e2] # "," THEN NoMatch
            ELSE
            LET b3 == e2 + 1
                e3 == digits_end(s, b3)
            IN  IF e3 = b3 \/ e3 > Len(s) \/ s[e3] # ")" THEN NoMatch
                ELSE IF closing /\ (e3 + 1 > Len(s) \/ s[e3 + 1] # Quote)
                THEN NoMatch
                ELSE [ok |-> TRUE,
                      g1 |-> SubSeq(s, b1, e1 - 1),
                      g2 |-> SubSeq(s, b2, e2 - 1),
                      g3 |-> SubSeq(s, b3, e3 - 1)]

\* the pattern without its final quote
token_at_unclosed(s, i) == token_from(s, i, FALSE)

\* "rgb_\(([\d]+),([\d]+),([\d]+)\)" at index i
token_at(s, i) == token_from(s, i, TRUE)

\* . matches every character but a newline: the longest prefix .* can take
RECURSIVE dot_star_end(_, _)
dot_star_end(s, j) ==
    IF j <= Len(s) /\ s[j] # Newline THEN dot_star_end(s, j + 1) ELSE j - 1

\* .* is greedy: it gives characters back one at a time, so the first
\* success is the one with the longest prefix
RECURSIVE backtrack(_, _)
backtrack(s, i) ==
    IF i < 1 THEN NoMatch
    ELSE LET m == token_at(s, i)
         IN  IF m.ok THEN m ELSE backtrack(s, i - 1)

\* a lazy .*? : the first success is the one with the shortest prefix
RECURSIVE forward(_, _, _)
forward(s, i, last) ==
    IF i > last THEN NoMatch
    ELSE LET m == token_at(s, i)
         IN  IF m.ok THEN m ELSE forward(s, i + 1, last)

re_match_lazy(s) == forward(s, 1, dot_star_end(s, 1) + 1)

\* the pattern without its leading .*
re_match_no_prefix(s) == token_at(s, 1)

re_match(s) == backtrack(s, dot_star_end(s, 1) + 1)

(***************************************************************************)
(* str.replace(old, new): every non-overlapping occurrence, left to right  *)
(***************************************************************************)
\* str.replace(old, new, 1): the first occurrence only
str_replace_first(s, old, new) ==
    LET at == {i \in 1..(Len(s) - Len(old) + 1) :
                  SubSeq(s, i, i + Len(old) - 1) = old}
    IN  IF at = {} THEN s
        ELSE LET i == CHOOSE x \in at : \A y \in at : x <= y
             IN  SubSeq(s, 1, i - 1) \o new
                 \o SubSeq(s, i + Len(old), Len(s))

RECURSIVE replace_from(_, _, _, _)
replace_from(s, old, new, i) ==
    IF i + Len(old) - 1 > Len(s) THEN SubSeq(s, i, Len(s))
    ELSE IF SubSeq(s, i, i + Len(old) - 1) = old
         THEN new \o replace_from(s, old, new, i + Len(old))
         ELSE <<s[i]>> \o replace_from(s, old, new, i + 1)

str_replace(s, old, new) == replace_from(s, old, new, 1)

(***************************************************************************)
(* migrate_color                                                           *)
(***************************************************************************)
original_color(matches) ==
    RgbOpen \o matches.g1 \o <<",">> \o matches.g2 \o <<",">> \o matches.g3
    \o <<")">>

hex_color(matches) ==
    as_hex(matches.g1) \o as_hex(matches.g2) \o as_hex(matches.g3)

\* a no-match path that ends the line once more
migrate_color_newline(l) ==
    LET matches == re_match(l)
    IN  IF ~matches.ok THEN l \o <<Newline>>
        ELSE str_replace(l, original_color(matches), hex_color(matches))

migrate_color(l) ==
    LET matches == re_match(l)
    IN  IF ~matches.ok THEN l
        ELSE str_replace(l, original_color(matches), hex_color(matches))

(***************************************************************************)
(* migrate: the rules of the list, each applied to the result of the one   *)
(* before                                                                  *)
(***************************************************************************)
migrators == <<"migrate_color">>

migrator(name, l) == CASE name = "migrate_color" -> migrate_color(l)

RECURSIVE for_migrator(_, _)
for_migrator(rules, l) ==
    IF rules = <<>> THEN l
    ELSE for_migrator(Tail(rules), migrator(Head(rules), l))

\* the loop calls each rule and drops what it returns
migrate_unassigned(l) == l

migrate(l) == for_migrator(migrators, l)

(***************************************************************************)
(* Input lines                                                             *)
(***************************************************************************)
\* the most tokens in a generated line
MaxToks == 2

\* the most lines in a generated input of several lines
MaxLines == 3

Lit(c1, c2, c3) == RgbOpen \o c1 \o <<",">> \o c2 \o <<",">> \o c3 \o <<")">>

Quoted(s) == <<Quote>> \o s \o <<Quote>>

Lit123 == Lit(<<"1">>, <<"2">>, <<"3">>)

\* colour literals: in range, with leading zeros and two-digit values, and
\* with a channel above 255
Literals ==
    { Lit123,
      Lit(<<"0", "7">>, <<"1", "0">>, <<"2", "5", "5">>),
      Lit(<<"2", "5", "6">>, <<"0">>, <<"9">>) }

\* a literal bare, as a whole quoted string, at the end of a quoted string,
\* and with the closing quote missing; a literal of two channels and one
\* with a channel that is no number; plain text
Tokens ==
    Literals
    \cup { Quoted(t) : t \in Literals }
    \cup { Quoted(<<"x">> \o t) : t \in Literals }
    \cup { <<Quote>> \o t : t \in Literals }
    \cup { Quoted(RgbOpen \o <<"1", ",", "2", ")">>),
           Quoted(RgbOpen \o <<"1", ",", "x", ",", "3", ")">>),
           <<"x">> }

RECURSIVE TokenSeqs(_)
TokenSeqs(n) ==
    IF n = 0 THEN {<<>>}
    ELSE LET shorter == TokenSeqs(n - 1)
         IN  shorter \cup { t \o s : t \in Tokens, s \in shorter }

\* the lines of section 8 of the specification and what the script makes of
\* them
Name == <<"n", "a", "m", "e", ":", " ">>

Color == <<"c", "o", "l", "o", "r", ":", " ">>

Theme == <<"t", "h", "e", "m", "e", "_">>

Lit000 == Lit(<<"0">>, <<"0">>, <<"0">>)

\* "rgb_(5,10,15)"
ExQuoted == Quoted(Lit(<<"5">>, <<"1", "0">>, <<"1", "5">>))

OutQuoted == Quoted(<<"0", "5", "0", "a", "0", "f">>)

\* name: "rgb_(255,255,255)"
ExNamed ==
    Name \o Quoted(Lit(<<"2", "5", "5">>, <<"2", "5", "5">>, <<"2", "5", "5">>))

OutNamed == Name \o Quoted(<<"f", "f", "f", "f", "f", "f">>)

\* color: "theme_rgb_(0,128,255)"
ExTheme ==
    Color \o Quoted(Theme \o Lit(<<"0">>, <<"1", "2", "8">>, <<"2", "5", "5">>))

\* plain text, no match
ExPlain ==
    <<"p", "l", "a", "i", "n", " ", "t", "e", "x", "t", ",", " ",
      "n", "o", " ", "m", "a", "t", "c", "h">>

\* "rgb_(1,2,3)" "rgb_(4,5,6)"
ExTwo ==
    Quoted(Lit123) \o <<" ">> \o Quoted(Lit(<<"4">>, <<"5">>, <<"6">>))

OutTwo ==
    Quoted(Lit123) \o <<" ">> \o Quoted(<<"0", "4", "0", "5", "0", "6">>)

\* "rgb_(1,2,3)" "rgb_(1,2,3)"
ExTwice == Quoted(Lit123) \o <<" ">> \o Quoted(Lit123)

OutTwice ==
    Quoted(<<"0", "1", "0", "2", "0", "3">>) \o <<" ">>
    \o Quoted(<<"0", "1", "0", "2", "0", "3">>)

\* "rgb_(1,2,rgb_(0,0,0))" "rgb_(0,0,0)": the matched text also stands inside
\* a longer rgb_( text
ExNested ==
    Quoted(RgbOpen \o <<"1", ",", "2", ",">> \o Lit000 \o <<")">>)
    \o <<" ">> \o Quoted(Lit000)

\* "rgb_(256,0,9)"
ExOutOfRange == Quoted(Lit(<<"2", "5", "6">>, <<"0">>, <<"9">>))

OutOutOfRange == Quoted(<<"1", "0", "0", "0", "0", "0", "9">>)

ExampleLines ==
    {ExQuoted, ExNamed, ExTheme, ExPlain, ExTwo, ExTwice, ExNested}

\* what iterating over a text stream yields: a line ends with its newline and
\* holds no other; only the last line of the input may lack it
Terminated(bodies) == { b \o <<Newline>> : b \in bodies }

Bodies == TokenSeqs(MaxToks) \cup ExampleLines

Lines == Terminated(Bodies) \cup (Bodies \ {<<>>})

\* the lines of the inputs of several lines: rewritten, kept, and with two
\* literals
StreamBodies ==
    { Quoted(Lit123),
      <<"x">>,
      Quoted(Lit(<<"2", "5", "6">>, <<"0">>, <<"9">>)) \o <<" ">>
        \o Quoted(Lit123) }

RECURSIVE Streams(_)
Streams(n) ==
    IF n = 0 THEN {<<>>}
    ELSE LET shorter == Streams(n - 1)
         IN  shorter
             \cup { <<l>> \o s : l \in Terminated(StreamBodies), s \in shorter }

\* standard input: one line of Lines, or up to MaxLines lines of StreamBodies
Inputs ==
    { <<l>> : l \in Lines }
    \cup Streams(MaxLines)
    \cup { s \o <<b>> : s \in Streams(MaxLines - 1), b \in StreamBodies }

(***************************************************************************)
(* for line in sys.stdin: new_line = migrate(line); sys.stdout.write(...)  *)
(***************************************************************************)
Init ==
    /\ stdin \in Inputs
    /\ pos = 0
    /\ line = <<>>
    /\ new_line = <<>>
    /\ stdout = <<>>
    /\ pc = "read"

\* the iterator yields the next line
NextLine ==
    /\ pc = "read"
    /\ pos < Len(stdin)
    /\ line' = stdin[pos + 1]
    /\ pos' = pos + 1
    /\ pc' = "migrate"
    /\ UNCHANGED <<stdin, new_line, stdout>>

\* the iterator is exhausted: the loop and the script end
StopIteration ==
    /\ pc = "read"
    /\ pos = Len(stdin)
    /\ pc' = "done"
    /\ UNCHANGED <<stdin, pos, line, new_line, stdout>>

Migrate ==
    /\ pc = "migrate"
    /\ new_line' = migrate(line)
    /\ pc' = "write"
    /\ UNCHANGED <<stdin, pos, line, stdout>>

\* a write that skips the lines no rule changed
WriteChanged ==
    /\ pc = "write"
    /\ stdout' = IF new_line = line THEN stdout ELSE Append(stdout, new_line)
    /\ pc' = "read"
    /\ UNCHANGED <<stdin, pos, line, new_line>>

Write ==
    /\ pc = "write"
    /\ stdout' = Append(stdout, new_line)
    /\ pc' = "read"
    /\ UNCHANGED <<stdin, pos, line, new_line>>

Next == NextLine \/ StopIteration \/ Migrate \/ Write

Spec == Init /\ [][Next]_vars

(***************************************************************************)
(* The vocabulary of the properties: colour literals as section 6 of the   *)
(* specification writes them, and the rewriting section 4.1 describes      *)
(***************************************************************************)
RECURSIVE RunEnd(_, _)
RunEnd(s, j) == IF j <= Len(s) /\ s[j] \in Digits THEN RunEnd(s, j + 1) ELSE j

NoLiteral ==
    [found |-> FALSE, c1 |-> <<>>, c2 |-> <<>>, c3 |-> <<>>, last |-> 0]

\* the literal rgb_(c1,c2,c3) that starts at index k of s, `last` the index
\* of its closing parenthesis
LiteralAt(s, k) ==
    IF k + 4 > Len(s) \/ SubSeq(s, k, k + 4) # <<"r", "g", "b", "_", "(">>
    THEN NoLiteral
    ELSE
    LET e1 == RunEnd(s, k + 5)
        e2 == RunEnd(s, e1 + 1)
        e3 == RunEnd(s, e2 + 1)
    IN  IF /\ e1 > k + 5 /\ e1 <= Len(s) /\ s[e1] = ","
           /\ e2 > e1 + 1 /\ e2 <= Len(s) /\ s[e2] = ","
           /\ e3 > e2 + 1 /\ e3 <= Len(s) /\ s[e3] = ")"
        THEN [found |-> TRUE,
              c1 |-> SubSeq(s, k + 5, e1 - 1),
              c2 |-> SubSeq(s, e1 + 1, e2 - 1),
              c3 |-> SubSeq(s, e2 + 1, e3 - 1),
              last |-> e3]
        ELSE NoLiteral

LiteralStarts(s) == { k \in 1..Len(s) : LiteralAt(s, k).found }

LiteralText(s, k) == SubSeq(s, k, LiteralAt(s, k).last)

\* the literal at k is followed by a closing quote
ClosedAt(s, k) ==
    LET e == LiteralAt(s, k).last IN e + 1 <= Len(s) /\ s[e + 1] = Quote

\* the literal at k is the whole content of a quoted string
QuotedAt(s, k) == k > 1 /\ s[k - 1] = Quote /\ ClosedAt(s, k)

QuotedStarts(s) == { k \in LiteralStarts(s) : QuotedAt(s, k) }

\* quoted-color-literal := '"' any-chars 'rgb_(' decimal ',' decimal ','
\* decimal ')' '"'
GrammarStarts(s) ==
    { k \in LiteralStarts(s) :
        ClosedAt(s, k) /\ \E q \in 1..(k - 1) : s[q] = Quote }

Least(S) == CHOOSE x \in S : \A y \in S : x <= y

Greatest(S) == CHOOSE x \in S : \A y \in S : x >= y

RECURSIVE Decimal(_, _)
Decimal(c, acc) ==
    IF c = <<>> THEN acc ELSE Decimal(Tail(c), 10 * acc + DigitValue(Head(c)))

HexValue(h) ==
    LET digit(c) == CHOOSE v \in 0..15 : HexDigits[v + 1] = c
        RECURSIVE value(_, _)
        value(t, acc) ==
            IF t = <<>> THEN acc ELSE value(Tail(t), 16 * acc + digit(Head(t)))
    IN  value(h, 0)

IsLowerHex(h) ==
    \A i \in 1..Len(h) : \E v \in 1..16 : HexDigits[v] = h[i]

\* hex2: two hexadecimal digits, of a value below 256
Hex2(v) == <<HexDigits[(v \div 16) + 1], HexDigits[(v % 16) + 1]>>

\* at least two digits, and as many as the value needs
RECURSIVE HexForm(_)
HexForm(v) ==
    IF v < 256 THEN Hex2(v)
    ELSE HexForm(v \div 16) \o <<HexDigits[(v % 16) + 1]>>

InRange(s, k) ==
    LET t == LiteralAt(s, k)
    IN  Decimal(t.c1, 0) < 256 /\ Decimal(t.c2, 0) < 256
        /\ Decimal(t.c3, 0) < 256

\* the six digits hex2(c1) + hex2(c2) + hex2(c3) of the literal at k
SixDigits(s, k) ==
    LET t == LiteralAt(s, k)
    IN  Hex2(Decimal(t.c1, 0)) \o Hex2(Decimal(t.c2, 0))
        \o Hex2(Decimal(t.c3, 0))

HexDigitsOf(s, k) ==
    LET t == LiteralAt(s, k)
    IN  HexForm(Decimal(t.c1, 0)) \o HexForm(Decimal(t.c2, 0))
        \o HexForm(Decimal(t.c3, 0))

\* s with the literal at k replaced by h and every other character kept
Rewritten(s, k, h) ==
    SubSeq(s, 1, k - 1) \o h \o SubSeq(s, LiteralAt(s, k).last + 1, Len(s))

\* s with the literal at each index of K replaced by h
RECURSIVE RewrittenAll(_, _, _)
RewrittenAll(s, K, h) ==
    IF K = {} THEN s
    ELSE LET k == Greatest(K)
         IN  RewrittenAll(Rewritten(s, k, h), K \ {k}, h)

\* the literals of s with the text of the one at k
SameText(s, k) ==
    { j \in LiteralStarts(s) : LiteralText(s, j) = LiteralText(s, k) }

Contains(s, t) ==
    \E i \in 1..(Len(s) - Len(t) + 1) : SubSeq(s, i, i + Len(t) - 1) = t

Newlines(s) == Cardinality({ i \in 1..Len(s) : s[i] = Newline })

\* with or without the line terminator
Line(body) == {body, body \o <<Newline>>}

\* migrate has returned: new_line is what it made of line
Migrated == pc = "write"

(***************************************************************************)
(* Properties                                                              *)
(***************************************************************************)

\* C1: a line with no substring of the form quoted-color-literal (a quote,
\* any characters, rgb_(d1,d2,d3), a quote) is returned by migrate_color, and
\* so by migrate, exactly as given, line terminator included.
C1_NoMatchUnchanged ==
    (Migrated /\ GrammarStarts(line) = {})
        => (new_line = line /\ migrate_color(line) = line)

\* a line with a literal outside quotes went through unchanged
C1_Witness ==
    /\ Migrated
    /\ LiteralStarts(line) # {}
    /\ GrammarStarts(line) = {}
    /\ line[Len(line)] = Newline
    /\ new_line = line

\* C2: a line whose only literal rgb_(d1,d2,d3) is the whole content of a
\* quoted string, with values below 256, is returned with that literal
\* replaced by hex2(d1)+hex2(d2)+hex2(d3) and every other character kept;
\* "rgb_(5,10,15)" becomes "050a0f" and name: "rgb_(255,255,255)" becomes
\* name: "ffffff".
C2_SingleLiteralRewritten ==
    Migrated =>
        /\ \A k \in QuotedStarts(line) :
              (LiteralStarts(line) = {k} /\ InRange(line, k))
                  => /\ new_line = Rewritten(line, k, SixDigits(line, k))
                     /\ Len(SixDigits(line, k)) = 6
        /\ line \in Line(ExQuoted)
              => new_line \in Line(OutQuoted)
        /\ line \in Line(ExNamed)
              => new_line \in Line(OutNamed)

C2_Witness ==
    /\ Migrated
    /\ line = ExQuoted
    /\ new_line = OutQuoted

\* C3 as stated: every quoted string whose content ends with rgb_(d1,d2,d3),
\* whatever precedes rgb_( inside the quotes, has the literal replaced by its
\* six hexadecimal digits (stated for lines with one literal, values < 256).
C3_AnyPrefixRewritten ==
    Migrated =>
        \A k \in GrammarStarts(line) :
            (LiteralStarts(line) = {k} /\ InRange(line, k))
                => new_line = Rewritten(line, k, SixDigits(line, k))

\* C3 amended: the rule matches a quoted string only when rgb_( immediately
\* follows the opening quote; any characters may precede that quote. When
\* other characters stand between the opening quote and rgb_( the line is
\* returned unchanged (stated for lines with one literal, values < 256).
C3_OnlyWholeStringRewritten ==
    Migrated =>
        \A k \in GrammarStarts(line) :
            (LiteralStarts(line) = {k} /\ InRange(line, k))
                => new_line = IF line[k - 1] = Quote
                              THEN Rewritten(line, k, SixDigits(line, k))
                              ELSE line

\* color: "theme_rgb_(0,128,255)" went through unchanged
C3_Witness ==
    /\ Migrated
    /\ line = ExTheme
    /\ new_line = line

\* the literals of the line all differ in text, and two or more are quoted
SeveralQuoted(s) ==
    /\ Cardinality(QuotedStarts(s)) >= 2
    /\ \A k \in LiteralStarts(s) : SameText(s, k) = {k}

\* C4 as stated: of two or more quoted literals with different channel text
\* the leftmost is the one replaced and every later one is left untouched.
C4_LeftmostRewritten ==
    (Migrated /\ SeveralQuoted(line)) =>
        LET k == Least(QuotedStarts(line))
        IN  new_line = Rewritten(line, k, HexDigitsOf(line, k))

\* C4 amended: of two or more quoted literals with different channel text
\* the rightmost is the one replaced and every earlier one is left untouched.
C4_RightmostRewritten ==
    (Migrated /\ SeveralQuoted(line)) =>
        LET k == Greatest(QuotedStarts(line))
        IN  new_line = Rewritten(line, k, HexDigitsOf(line, k))

C4_Witness ==
    /\ Migrated
    /\ line = ExTwo
    /\ new_line = OutTwo

\* the rule matches, and the text of the matched literal occurs again
MatchedTextRepeats(s) ==
    /\ QuotedStarts(s) # {}
    /\ Cardinality(SameText(s, Greatest(QuotedStarts(s)))) >= 2

\* C5 as stated: when the text of the matched literal occurs more than once
\* in the line, only its first occurrence is replaced and the output holds
\* exactly one occurrence fewer than the input.
C5_FirstOccurrenceOnly ==
    (Migrated /\ MatchedTextRepeats(line)) =>
        LET m == Greatest(QuotedStarts(line))
            k == Least(SameText(line, m))
        IN  /\ new_line = Rewritten(line, k, HexDigitsOf(line, k))
            /\ Cardinality({ j \in LiteralStarts(new_line) :
                   LiteralText(new_line, j) = LiteralText(line, m) })
               = Cardinality(SameText(line, m)) - 1

\* C5 amended: when the text of the matched literal occurs more than once in
\* the line, inside or outside quotes, every occurrence is replaced by the
\* hexadecimal digits and every other character is kept.
C5_EveryOccurrence ==
    (Migrated /\ MatchedTextRepeats(line)) =>
        LET m == Greatest(QuotedStarts(line))
        IN  new_line
            = RewrittenAll(line, SameText(line, m), HexDigitsOf(line, m))

C5_Witness ==
    /\ Migrated
    /\ line = ExTwice
    /\ new_line = OutTwice

\* C6: the loop is a sequential, order-preserving, one-for-one map: what has
\* been written is migrate of the lines read so far, in order, with at most
\* one line read and not yet written; at the end as many lines are written
\* as were read, and no rewrite adds or removes a newline.
C6_SequentialMap ==
    /\ pos \in 0..Len(stdin)
    /\ Len(stdout) = IF pc \in {"migrate", "write"} THEN pos - 1 ELSE pos
    /\ \A i \in 1..Len(stdout) :
          /\ stdout[i] = migrate(stdin[i])
          /\ Newlines(stdout[i]) = Newlines(stdin[i])
    /\ pc = "write" => new_line = migrate(stdin[pos])
    /\ pc = "done" => Len(stdout) = Len(stdin)

\* a run over three lines has ended, with a line rewritten and a line kept
C6_Witness ==
    /\ pc = "done"
    /\ Len(stdin) = 3
    /\ Len(stdout) = 3
    /\ \E i \in 1..3 : stdout[i] # stdin[i]
    /\ \E i \in 1..3 : stdout[i] = stdin[i]

\* C7: when migrate(l) holds no rgb_(...) literal any more, a second run
\* gives what the first gave: migrate(migrate(l)) = migrate(l).
C7_IdempotentOnMigrated ==
    (Migrated /\ LiteralStarts(new_line) = {})
        => migrate(new_line) = new_line

\* a line was rewritten, holds no literal any more, and a second run keeps it
C7_Witness ==
    /\ Migrated
    /\ new_line # line
    /\ LiteralStarts(new_line) = {}
    /\ migrate(new_line) = new_line

\* what as_hex makes of the channel text c
HexOf(c, h) ==
    /\ IsLowerHex(h)
    /\ HexValue(h) = Decimal(c, 0)
    /\ Len(h) >= 2
    /\ Decimal(c, 0) < 256 => Len(h) = 2
    /\ Decimal(c, 0) >= 256 => (Len(h) >= 3 /\ h[1] # "0")
    /\ c = <<"2", "5", "6">> => h = <<"1", "0", "0">>

OutOfRange(m) ==
    \E c \in {m.g1, m.g2, m.g3} : Decimal(c, 0) >= 256

\* C8: each captured channel is read in base 10 and written in lowercase
\* hexadecimal, zero-padded to two digits and never truncated: two digits
\* below 256, three or more from 256 on (256 gives 100); a matching line with
\* such a channel is still rewritten, by more than six characters.
C8_HexNeverTruncated ==
    Migrated =>
        /\ \A k \in LiteralStarts(line) :
              LET t == LiteralAt(line, k)
              IN  \A c \in {t.c1, t.c2, t.c3} : HexOf(c, as_hex(c))
        /\ LET m == re_match(line)
           IN  (m.ok /\ OutOfRange(m)) =>
                  /\ new_line # line
                  /\ Len(hex_color(m)) > 6
                  /\ \E k \in QuotedStarts(line) :
                        new_line = RewrittenAll(line, SameText(line, k),
                                                HexDigitsOf(line, k))

\* "rgb_(256,0,9)" was rewritten to "1000009"
C8_Witness ==
    /\ Migrated
    /\ line = ExOutOfRange \o <<Newline>>
    /\ new_line = OutOutOfRange \o <<Newline>>

\* C9: migrate applies the rules of its list in order, each to the result of
\* the one before; the list holds one rule, so migrate(l) = migrate_color(l),
\* and migrate is the identity where no rule's pattern applies.
C9_MigrateIsMigrateColor ==
    /\ Len(migrators) = 1
    /\ Migrated =>
          /\ new_line = migrate_color(line)
          /\ new_line = migrator(migrators[1], line)
          /\ ~re_match(line).ok => new_line = line

\* the one rule applied, and migrate returned what it returned
C9_Witness ==
    /\ Migrated
    /\ re_match(line).ok
    /\ new_line # line
    /\ new_line = migrate_color(line)

AllQuotedSameText(s) ==
    \A k \in LiteralStarts(s) :
        QuotedAt(s, k) /\ SameText(s, k) = LiteralStarts(s)

=============================================================================
